---- MODULE Spec2Model ----
(***************************************************************************)
(* Model of compile_shaders.py: the incremental shader build driver.       *)
(*                                                                         *)
(* The state is the filesystem under resources/shaders (the only state the *)
(* script has), the clock that stamps files written by the compiler, and   *)
(* the position of one run of main(): the snapshot list returned by        *)
(* glob.glob and the entries of it still to be visited.                    *)
(*                                                                         *)
(* A path is the sequence of its dot-separated components, so that         *)
(* "a.vert.spv" is <<"a","vert","spv">>; str.endswith and the '{}.spv'     *)
(* format are computed on that sequence.  os.path.abspath only prepends    *)
(* the working directory and is not modelled.                              *)
(*                                                                         *)
(* Environment: glslc is an external program.  It is modelled by its       *)
(* calling convention: with exit status 0 it has written the file named    *)
(* after -o, stamped with the current clock; with a non-zero status it has *)
(* written nothing; it cannot succeed on an input that does not exist.     *)
(* Authors create, touch, remove and re-link source files between runs;    *)
(* only the compiler writes <source>.spv files.                            *)
(***************************************************************************)
EXTENDS Integers, Sequences, FiniteSets, TLC

\* Largest clock value and largest modification time.
MaxTime == 2

----------------------------------------------------------------------------
(* Paths *)

a_vert     == <<"a", "vert">>
b_frag     == <<"b", "frag">>
a_vert_spv == <<"a", "vert", "spv">>
b_frag_spv == <<"b", "frag", "spv">>
notes_txt  == <<"notes", "txt">>
lib_spv    == <<"lib", "spv">>

Paths == {a_vert, b_frag, a_vert_spv, b_frag_spv, notes_txt, lib_spv}

\* str.endswith('.' + ext)
endswith(path, ext) == Len(path) >= 2 /\ path[Len(path)] = ext

\* line 26: src_path.endswith('.spv')
is_spv_second(path) == Len(path) >= 2 /\ path[2] = "spv"
is_spv_all(path) == TRUE
is_spv(path) == endswith(path, "spv")

\* line 33: src_path.endswith('.vert') or src_path.endswith('.frag')
is_shader(path) == endswith(path, "vert") \/ endswith(path, "frag")

\* line 36: dst_path = '{}.spv'.format(src_path)
dst_path_fixed(src_path) == a_vert_spv
dst_path(src_path) == Append(src_path, "spv")

Sources   == {p \in Paths : is_shader(p)}
Artifacts == {dst_path(p) : p \in Sources}

----------------------------------------------------------------------------
(* Filesystem *)

Absent   == [kind |-> "absent", mtime |-> 0]
Dangling == [kind |-> "dangling", mtime |-> 0]
File(t)  == [kind |-> "file", mtime |-> t]

Entries == {Absent, Dangling} \cup {File(t) : t \in 1..MaxTime}

\* Results of os.stat(fpath): the mtime, FileNotFoundError (the path is
\* missing, or is a symbolic link whose target is missing), or another
\* OSError such as PermissionError on a file that exists.
os_stat(entry) ==
    IF entry.kind = "file"
    THEN {[err |-> "none", st_mtime |-> entry.mtime],
          [err |-> "EACCES", st_mtime |-> 0]}
    ELSE {[err |-> "ENOENT", st_mtime |-> 0]}

\* get_mtime: the value returned, or raised when the exception propagates.
get_mtime_strict(st) ==
    IF st.err = "none" THEN [raised |-> FALSE, value |-> st.st_mtime]
    ELSE [raised |-> TRUE, value |-> 0]
get_mtime(st) ==
    IF st.err = "none" THEN [raised |-> FALSE, value |-> st.st_mtime]
    ELSE IF st.err = "ENOENT" THEN [raised |-> FALSE, value |-> 0]
    ELSE [raised |-> TRUE, value |-> 0]

\* line 38: the skip test get_mtime(dst_path) > get_mtime(src_path)
newer_or_equal(dst_mtime, src_mtime) == dst_mtime >= src_mtime
newer_never(dst_mtime, src_mtime) == FALSE
newer(dst_mtime, src_mtime) == dst_mtime > src_mtime

\* glob.glob('resources/shaders/**', recursive=True): every entry of the
\* tree, symbolic links included whether or not their target exists.
glob(files) == {p \in Paths : files[p].kind # "absent"}

\* ret.check_returncode(): TRUE when CalledProcessError is raised.
check_returncode_ignored(ret) == FALSE
check_returncode(ret) == ret # 0

\* Exit statuses glslc can return for an input.
glslc_status(entry) == IF entry.kind = "file" THEN {0, 1} ELSE {1}

\* The entries left to visit after one iteration of a for loop over the list.
rest_stuck(remaining, file) == remaining
rest(remaining, file) == remaining \ {file}

\* os.unlink(src_path) either removes the file or raises OSError.
os_unlink == {"ok", "EACCES"}

----------------------------------------------------------------------------
(* State *)

VARIABLES
    fs,        \* the tree under resources/shaders: path -> entry
    now,       \* the clock
    pc,        \* "idle", "clean", "build", "done" (returned), "aborted" (raised)
    clean,     \* args.clean of the current run
    files,     \* the list glob.glob returned to the current run
    todo,      \* the entries of files the loop has not reached yet
    cause,     \* what aborted the run: "none", "compiler", "unlink", or the
               \* timestamp read that raised, "stat-dst" or "stat-src"
    \* history of the current run
    fs0,       \* the tree as it was when the run started
    visits,    \* path -> number of loop iterations that took it
    invoked,   \* path -> number of compiler invocations with it as input
    seen,      \* path -> the comparison made for it and what followed
    \* history across runs
    built,     \* sources for which some invocation has exited with status 0
    last,      \* "build" or "build-older" when the previous run was a build
               \* run that returned and no source has changed since
               \* ("build-older": AllOlder held when it started), else "none"
    older,     \* AllOlder held when the current run started
    again      \* "plain" or "safe" when this build run directly follows a
               \* build run that returned, with no source change in between
               \* ("safe": AllOlder held when that run started), else "no"

vars == <<fs, now, pc, clean, files, todo, cause, fs0, visits, invoked, seen,
          built, last, older, again>>

run  == <<pc, clean, files, todo, cause>>
hist == <<fs0, visits, invoked, seen>>

NotSeen == [what |-> "none", dst |-> 0, src |-> 0]
Seen(w, d, s) == [what |-> w, dst |-> d, src |-> s]

\* Every existing source was last modified strictly before the clock.
AllOlder == \A p \in Sources : fs[p].kind = "file" => fs[p].mtime < now

Init ==
    /\ fs \in [Paths -> Entries]
    /\ \A p \in Paths : fs[p] = IF p \in {notes_txt, lib_spv} THEN File(1) ELSE Absent
    /\ now = 1
    /\ pc = "idle"
    /\ clean = FALSE
    /\ files = {}
    /\ todo = {}
    /\ cause = "none"
    /\ fs0 = fs
    /\ visits = [p \in Paths |-> 0]
    /\ invoked = [p \in Paths |-> 0]
    /\ seen = [p \in Paths |-> NotSeen]
    /\ built = {}
    /\ last = "none"
    /\ older = FALSE
    /\ again = "no"

Running == pc \in {"clean", "build"}

----------------------------------------------------------------------------
(* Environment *)

\* The clock advances.
Tick ==
    /\ now < MaxTime
    /\ now' = now + 1
    /\ UNCHANGED <<fs, run, hist, built, last, older, again>>

\* An author saves or touches a source file; the timestamp is whatever the
\* author's tool sets (touch -d, an archive extraction, a skewed clock).
AuthorWrite(p, t) ==
    /\ pc = "idle"
    /\ p \in Sources
    /\ fs' = [fs EXCEPT ![p] = File(t)]
    /\ last' = "none"
    /\ UNCHANGED <<now, run, hist, built, older, again>>

\* An author removes a source file.
AuthorRemove(p) ==
    /\ pc = "idle"
    /\ p \in Sources
    /\ fs[p] # Absent
    /\ fs' = [fs EXCEPT ![p] = Absent]
    /\ last' = "none"
    /\ UNCHANGED <<now, run, hist, built, older, again>>

\* An author leaves a symbolic link whose target does not exist.
AuthorLink(p) ==
    /\ pc = "idle"
    /\ p \in Sources
    /\ fs[p] # Dangling
    /\ fs' = [fs EXCEPT ![p] = Dangling]
    /\ last' = "none"
    /\ UNCHANGED <<now, run, hist, built, older, again>>

----------------------------------------------------------------------------
(* main() *)

\* lines 18-23 and 31: parse the arguments and take the glob list.
Start(c) ==
    /\ pc = "idle"
    /\ clean' = c
    /\ pc' = IF c THEN "clean" ELSE "build"
    /\ files' = glob(fs)
    /\ todo' = glob(fs)
    /\ cause' = "none"
    /\ fs0' = fs
    /\ visits' = [p \in Paths |-> 0]
    /\ invoked' = [p \in Paths |-> 0]
    /\ seen' = [p \in Paths |-> NotSeen]
    /\ last' = "none"
    /\ older' = AllOlder
    /\ again' = IF c \/ last = "none" THEN "no"
                ELSE IF last = "build-older" THEN "safe" ELSE "plain"
    /\ UNCHANGED <<fs, now, built>>

\* lines 23-28, one iteration: an entry that does not end in .spv.
CleanKeep(file) ==
    /\ pc = "clean"
    /\ file \in todo
    /\ ~is_spv(file)
    /\ todo' = rest(todo, file)
    /\ visits' = [visits EXCEPT ![file] = @ + 1]
    /\ seen' = [seen EXCEPT ![file] = Seen("kept", 0, 0)]
    /\ UNCHANGED <<fs, now, pc, clean, files, cause, fs0, invoked, built, last,
                   older, again>>

\* lines 23-28, one iteration: an entry that ends in .spv is unlinked; an
\* OSError from os.unlink leaves main().
CleanRemove(file) ==
    /\ pc = "clean"
    /\ file \in todo
    /\ is_spv(file)
    /\ visits' = [visits EXCEPT ![file] = @ + 1]
    /\ \E res \in os_unlink :
          IF res = "ok"
          THEN /\ fs' = [fs EXCEPT ![file] = Absent]
               /\ todo' = rest(todo, file)
               /\ seen' = [seen EXCEPT ![file] = Seen("removed", 0, 0)]
               /\ UNCHANGED <<pc, cause>>
          ELSE /\ pc' = "aborted"
               /\ cause' = "unlink"
               /\ seen' = [seen EXCEPT ![file] = Seen("error", 0, 0)]
               /\ UNCHANGED <<fs, todo>>
    /\ UNCHANGED <<now, clean, files, fs0, invoked, built, last, older, again>>

\* lines 31-34, one iteration: an entry that is not a shader source.
BuildIgnore(file) ==
    /\ pc = "build"
    /\ file \in todo
    /\ ~is_shader(file)
    /\ todo' = rest(todo, file)
    /\ visits' = [visits EXCEPT ![file] = @ + 1]
    /\ seen' = [seen EXCEPT ![file] = Seen("ignored", 0, 0)]
    /\ UNCHANGED <<fs, now, pc, clean, files, cause, fs0, invoked, built, last,
                   older, again>>

\* lines 31-38, one iteration: a timestamp read raises and leaves main().
BuildStatError(file) ==
    /\ pc = "build"
    /\ file \in todo
    /\ is_shader(file)
    /\ \E dst_st \in os_stat(fs[dst_path(file)]), src_st \in os_stat(fs[file]) :
       /\ get_mtime(dst_st).raised \/ get_mtime(src_st).raised
       /\ pc' = "aborted"
       /\ cause' = IF get_mtime(dst_st).raised THEN "stat-dst" ELSE "stat-src"
       /\ visits' = [visits EXCEPT ![file] = @ + 1]
       /\ seen' = [seen EXCEPT ![file] = Seen("error", 0, 0)]
       /\ UNCHANGED <<fs, now, clean, files, todo, fs0, invoked, built, last,
                      older, again>>

\* lines 31-39, one iteration: the artifact is newer, continue.
BuildSkip(file) ==
    /\ pc = "build"
    /\ file \in todo
    /\ is_shader(file)
    /\ \E dst_st \in os_stat(fs[dst_path(file)]), src_st \in os_stat(fs[file]) :
       /\ ~get_mtime(dst_st).raised /\ ~get_mtime(src_st).raised
       /\ newer(get_mtime(dst_st).value, get_mtime(src_st).value)
       /\ todo' = rest(todo, file)
       /\ visits' = [visits EXCEPT ![file] = @ + 1]
       /\ seen' = [seen EXCEPT ![file] =
                     Seen("skipped", get_mtime(dst_st).value, get_mtime(src_st).value)]
       /\ UNCHANGED <<fs, now, pc, clean, files, cause, fs0, invoked, built, last,
                      older, again>>

\* lines 31-43, one iteration: the artifact is not newer; glslc is run with
\* -o dst_path src_path and its exit status is checked.
BuildCompile(file) ==
    /\ pc = "build"
    /\ file \in todo
    /\ is_shader(file)
    /\ \E dst_st \in os_stat(fs[dst_path(file)]), src_st \in os_stat(fs[file]) :
       \E ret \in glslc_status(fs[file]) :
       /\ ~get_mtime(dst_st).raised /\ ~get_mtime(src_st).raised
       /\ ~newer(get_mtime(dst_st).value, get_mtime(src_st).value)
       /\ invoked' = [invoked EXCEPT ![file] = @ + 1]
       /\ visits' = [visits EXCEPT ![file] = @ + 1]
       /\ fs' = IF ret = 0 THEN [fs EXCEPT ![dst_path(file)] = File(now)] ELSE fs
       /\ built' = IF ret = 0 THEN built \cup {file} ELSE built
       /\ seen' = [seen EXCEPT ![file] =
                     Seen(IF ret = 0 THEN "compiled" ELSE "failed",
                          get_mtime(dst_st).value, get_mtime(src_st).value)]
       /\ IF check_returncode(ret)
          THEN /\ pc' = "aborted"
               /\ cause' = "compiler"
               /\ UNCHANGED todo
          ELSE /\ todo' = rest(todo, file)
               /\ UNCHANGED <<pc, cause>>
       /\ UNCHANGED <<now, clean, files, fs0, last, older, again>>

\* lines 29 and 43: the loop is exhausted and main() returns.
Finish ==
    /\ Running
    /\ todo = {}
    /\ pc' = "done"
    /\ UNCHANGED <<fs, now, clean, files, todo, cause, hist, built, last,
                   older, again>>

\* The process exits; nothing of the run outlives it but the tree.
Exit ==
    /\ pc \in {"done", "aborted"}
    /\ pc' = "idle"
    /\ clean' = FALSE
    /\ files' = {}
    /\ todo' = {}
    /\ cause' = "none"
    /\ fs0' = fs
    /\ visits' = [p \in Paths |-> 0]
    /\ invoked' = [p \in Paths |-> 0]
    /\ seen' = [p \in Paths |-> NotSeen]
    /\ last' = IF pc = "done" /\ ~clean
               THEN (IF older THEN "build-older" ELSE "build")
               ELSE "none"
    /\ older' = FALSE
    /\ again' = "no"
    /\ UNCHANGED <<fs, now, built>>

Next ==
    \/ Tick
    \/ \E p \in Sources, t \in 1..MaxTime : AuthorWrite(p, t)
    \/ \E p \in Sources : AuthorRemove(p)
    \/ \E p \in Sources : AuthorLink(p)
    \/ \E c \in BOOLEAN : Start(c)
    \/ \E file \in Paths : CleanKeep(file)
    \/ \E file \in Paths : CleanRemove(file)
    \/ \E file \in Paths : BuildIgnore(file)
    \/ \E file \in Paths : BuildStatError(file)
    \/ \E file \in Paths : BuildSkip(file)
    \/ \E file \in Paths : BuildCompile(file)
    \/ Finish
    \/ Exit

Spec == Init /\ [][Next]_vars

TypeOK ==
    /\ fs \in [Paths -> Entries]
    /\ now \in 1..MaxTime
    /\ pc \in {"idle", "clean", "build", "done", "aborted"}
    /\ todo \subseteq Paths

----------------------------------------------------------------------------
(* Properties.  They name the paths literally, not through the script's    *)
(* own suffix tests.                                                       *)

SourcePaths == {a_vert, b_frag}
SpvPaths    == {a_vert_spv, b_frag_spv, lib_spv}
ArtifactOf  == (a_vert :> a_vert_spv) @@ (b_frag :> b_frag_spv)

\* The modification time of a path in a tree, 0 when there is no file.
MTime(tree, p) == IF tree[p].kind = "file" THEN tree[p].mtime ELSE 0

\* This step is the build loop's iteration for f.
Examines(f) == pc = "build" /\ visits'[f] = visits[f] + 1

\* C1: in a build run, a source whose artifact does not exist when the loop
\* examines it (and whose own timestamp read does not raise) gets exactly one
\* compiler invocation in that run.
C1_MissingArtifactCompiledOnce ==
    [][\A f \in SourcePaths :
         /\ (Examines(f) /\ fs[ArtifactOf[f]].kind = "absent" /\ cause' # "stat-src")
               => (invoked[f] = 0 /\ invoked'[f] = 1)
         /\ (seen[f].what \in {"compiled", "failed"} /\ fs0[ArtifactOf[f]].kind = "absent")
               => (invoked[f] = 1 /\ (invoked'[f] = 1 \/ pc' = "idle"))]_vars

C1_Witness ==
    /\ pc = "done" /\ ~clean
    /\ fs0[a_vert].kind = "file" /\ fs0[a_vert_spv].kind = "absent"
    /\ invoked[a_vert] = 1 /\ fs[a_vert_spv].kind = "file"

\* C2: in a build run, a pair whose artifact is strictly newer than its
\* source when examined gets no compiler invocation and the artifact is left
\* as it was, in that step and for the rest of the run.
C2_NewerArtifactSkipped ==
    [][\A f \in SourcePaths :
         /\ (Examines(f) /\ fs[f].kind = "file"
               /\ MTime(fs, ArtifactOf[f]) > MTime(fs, f)
               /\ cause' \notin {"stat-src", "stat-dst"})
               => (invoked' = invoked /\ fs' = fs /\ seen'[f].what = "skipped")
         /\ (seen[f].what = "skipped" /\ pc' # "idle")
               => (invoked'[f] = 0 /\ fs'[ArtifactOf[f]] = fs0[ArtifactOf[f]])]_vars

C2_Witness ==
    /\ pc = "done" /\ ~clean
    /\ fs0[a_vert].kind = "file"
    /\ MTime(fs0, a_vert_spv) > MTime(fs0, a_vert)
    /\ seen[a_vert].what = "skipped" /\ invoked[a_vert] = 0

\* C3 as stated: a build run that directly follows a build run that
\* returned, with no source change in between, never invokes the compiler.
C3_SecondRunNoInvocation ==
    again \in {"plain", "safe"} => \A f \in SourcePaths : invoked[f] = 0

\* C3 amended: the same, provided every source was last modified strictly
\* before the clock time at which the first run started.
C3_SecondRunNoInvocationWhenOlder ==
    again = "safe" => \A f \in SourcePaths : invoked[f] = 0

C3_Witness ==
    /\ again = "safe" /\ pc = "done"
    /\ a_vert \in built /\ seen[a_vert].what = "skipped"
    /\ b_frag \in built /\ seen[b_frag].what = "skipped"

\* C4: in a build run, a source whose artifact time is not strictly greater
\* than its own time when examined (equal times included) is compiled.
C4_TieRecompiles ==
    [][\A f \in SourcePaths :
         (Examines(f) /\ fs[f].kind = "file"
            /\ MTime(fs, ArtifactOf[f]) <= MTime(fs, f)
            /\ cause' \notin {"stat-src", "stat-dst"})
           => (invoked'[f] = invoked[f] + 1
               /\ seen'[f].what \in {"compiled", "failed"})]_vars

C4_Witness ==
    /\ pc = "build"
    /\ seen[a_vert].what = "compiled"
    /\ seen[a_vert].dst = seen[a_vert].src /\ seen[a_vert].dst > 0
    /\ invoked[a_vert] = 1

\* C5: a clean run that returns has deleted every .spv file that was in the
\* tree when it started and has left every other file as it was; no step of
\* a clean run changes a file that does not end in .spv.
C5_CleanRemovesExactlySpv ==
    [][/\ pc = "clean" => \A p \in Paths \ SpvPaths : fs'[p] = fs[p]
       /\ (pc' = "done" /\ clean') =>
             \A p \in Paths : fs'[p] = IF p \in SpvPaths THEN Absent ELSE fs0'[p]]_vars

C5_Witness ==
    /\ pc = "done" /\ clean
    /\ fs0[lib_spv].kind = "file" /\ fs[lib_spv].kind = "absent"
    /\ fs0[a_vert_spv].kind = "file" /\ fs[a_vert_spv].kind = "absent"
    /\ fs0[a_vert].kind = "absent"
    /\ MTime(fs0, b_frag_spv) > MTime(fs0, b_frag) /\ fs[b_frag_spv].kind = "absent"
    /\ fs[notes_txt].kind = "file" /\ fs[b_frag].kind = "file"

\* C6: a compiler invocation that exits non-zero aborts the run at once: the
\* failed source has had one invocation, no entry that was still to come is
\* ever visited, and nothing more is invoked or written until the process
\* has exited.
C6_FailFast ==
    [][/\ \A f \in SourcePaths :
            seen'[f].what = "failed" =>
               /\ pc' = "aborted" /\ cause' = "compiler"
               /\ invoked'[f] = 1
               /\ \A p \in todo' \ {f} : visits'[p] = 0 /\ invoked'[p] = 0
       /\ pc = "aborted" =>
            \/ pc' = "idle"
            \/ (visits' = visits /\ invoked' = invoked /\ fs' = fs /\ todo' = todo)]_vars

C6_Witness ==
    /\ pc = "aborted" /\ cause = "compiler"
    /\ seen[b_frag].what = "failed" /\ invoked[b_frag] = 1
    /\ a_vert \in todo /\ visits[a_vert] = 0
    /\ fs[a_vert].kind = "file" /\ fs[a_vert_spv].kind = "absent"

\* C7 as stated: a failed unlink or timestamp read aborts the run, the only
\* exception being a missing artifact; in particular a source whose
\* timestamp cannot be read (here: a link to a missing file) aborts the run
\* with no compiler invocation.
C7_SourceStatFailureIsFatal ==
    [][/\ \A p \in Paths : seen'[p].what = "error" => pc' = "aborted"
       /\ \A f \in SourcePaths :
            (Examines(f) /\ fs[f].kind = "dangling")
               => (pc' = "aborted" /\ cause' = "stat-src" /\ invoked' = invoked)]_vars

\* C8: every <source>.spv that exists was written by a compiler invocation
\* for that source that exited with status 0.
C8_ArtifactProvenance ==
    \A f \in SourcePaths : fs[ArtifactOf[f]].kind = "file" => f \in built

C8_Witness ==
    /\ pc = "aborted" /\ cause = "compiler"
    /\ seen[a_vert].what = "failed"
    /\ fs[a_vert_spv].kind = "file" /\ fs[b_frag_spv].kind = "file"
    /\ seen[b_frag].what = "compiled"

\* C9: a build step changes no file but the artifact of the source it is
\* processing, which it can only write, and compares that source's own pair;
\* a clean step invokes no compiler and changes no file that does not end in
\* .spv.
C9_Frame ==
    [][/\ pc = "build" =>
            /\ \A p \in Paths :
                 fs'[p] # fs[p] =>
                    /\ fs'[p].kind = "file"
                    /\ \E f \in SourcePaths : Examines(f) /\ p = ArtifactOf[f]
            /\ \A f \in SourcePaths :
                 (Examines(f) /\ seen'[f].what \in {"skipped", "compiled", "failed"})
                    => /\ seen'[f].dst = MTime(fs, ArtifactOf[f])
                       /\ seen'[f].src = MTime(fs, f)
       /\ pc = "clean" =>
            /\ invoked' = invoked /\ built' = built
            /\ \A p \in Paths \ SpvPaths : fs'[p] = fs[p]]_vars

C9_Witness ==
    /\ pc = "build"
    /\ seen[b_frag].what = "compiled" /\ fs[b_frag_spv] # fs0[b_frag_spv]
    /\ fs0[a_vert_spv].kind = "file" /\ fs[a_vert_spv] = fs0[a_vert_spv]
    /\ fs[a_vert] = fs0[a_vert] /\ fs[b_frag] = fs0[b_frag]
    /\ fs[notes_txt] = fs0[notes_txt] /\ fs[lib_spv] = fs0[lib_spv]

\* C10: a run works on the list taken when it started: only entries that
\* were in the tree then are visited, each at most once, with at most one
\* compiler invocation per source; and when a build run returns, every
\* source of the list was skipped on a strictly newer artifact or had one
\* invocation that exited with status 0.
C10_SnapshotAndCompletion ==
    /\ \A p \in Paths : visits[p] <= 1 /\ invoked[p] <= 1
    /\ \A p \in Paths : (p \in todo \/ visits[p] > 0) => fs0[p].kind # "absent"
    /\ (pc = "done" /\ ~clean) =>
          \A f \in SourcePaths :
             fs0[f].kind # "absent" =>
                /\ visits[f] = 1
                /\ \/ seen[f].what = "skipped" /\ seen[f].dst > seen[f].src
                                               /\ invoked[f] = 0
                   \/ seen[f].what = "compiled" /\ invoked[f] = 1

C10_Witness ==
    /\ pc = "done" /\ ~clean
    /\ seen[a_vert].what = "compiled" /\ fs0[a_vert_spv].kind = "absent"
    /\ visits[a_vert_spv] = 0 /\ fs[a_vert_spv].kind = "file"
    /\ seen[b_frag].what = "skipped"

====
